---------------------------- MODULE Spec2Model ----------------------------
(***************************************************************************)
(* The volume-scheduler framework: the Status model (framework/types),     *)
(* PluginToStatus.Merge and the Framework driver's run-operations          *)
(* (runtime/framework).  One driver operation runs at a time; every plugin *)
(* call is one step whose returned status is an input of the step.         *)
(*                                                                         *)
(* Strings are sequences of tokens, so that concatenation is \o.  An error *)
(* value is the chain of messages reached by Unwrap, outermost first; the  *)
(* nil error is the empty chain.                                           *)
(***************************************************************************)
EXTENDS Integers, Sequences, FiniteSets, TLC

\* ------------------------------------------------------------------ bounds
\* Plugins registered per extension point, at most.
MaxPlugins == 3
\* Pools passed to RunScorePlugins, at most.
MaxPools == 2
\* Members of a PluginToStatus passed to Merge, at most.
MaxMembers == 2

\* The names plugins register under, in registration order.
PluginNames == <<"A", "B", "C", "D", "E">>
\* The pool names a PostFilter plugin nominates.
PoolNames == {"", "p1"}
\* The names of the pools passed to RunScorePlugins, in order.
PoolList == <<"p1", "p2", "p3", "p4">>

\* ------------------------------------------------------------- Status model
Success == 0
Error == 1
Unschedulable == 2
Wait == 3
Skip == 4
Codes == {Success, Error, Unschedulable, Wait, Skip}

statusPrecedence(c) ==
    IF c = Error THEN 2
    ELSE IF c = Unschedulable THEN 1
    ELSE IF c = Success THEN -1
    ELSE 0

NilError == <<>>
\* errors.New(msg)
ErrorsNew(msg) == <<msg>>
\* fmt.Errorf(prefix + "%w", err): the message is prefix followed by err's
\* message, and Unwrap gives err.
Errorf(prefix, err) == <<prefix \o err[1]>> \o err
\* err.Error()
ErrorMessage(err) == err[1]
\* The %q verb on a plugin name.
Quoted(name) == <<"'", name, "'">>

\* The nil *Status.  Reading a field of it is a nil dereference.
NilStatus ==
    [nil |-> TRUE, code |-> Success, reasons |-> <<>>, err |-> NilError,
     pluginName |-> ""]

Code(s) == IF s.nil THEN Success ELSE s.code

RECURSIVE Join(_)
\* strings.Join(reasons, ", ")
Join(reasons) ==
    IF reasons = <<>> THEN <<>>
    ELSE IF Len(reasons) = 1 THEN reasons[1]
    ELSE reasons[1] \o <<", ">> \o Join(Tail(reasons))

Message(s) == IF s.nil THEN <<>> ELSE Join(s.reasons)

SetPluginName(s, plugin) == [s EXCEPT !.pluginName = plugin]

WithPluginName(s, plugin) == SetPluginName(s, plugin)

\* Mutant: only a Status that exists and has code Success is a success.
IsSuccessOfPresent(s) == ~s.nil /\ s.code = Success

IsSuccess(s) == Code(s) = Success

IsUnschedulable(s) == Code(s) = Unschedulable

\* Mutant: only the stored error is returned, none is made of the reasons.
AsErrorStoredOnly(s) ==
    IF Code(s) = Success THEN NilError ELSE s.err

AsError(s) ==
    IF IsSuccess(s) THEN NilError
    ELSE IF s.err # NilError THEN s.err
    ELSE ErrorsNew(Message(s))

NewStatus(code, reasons) ==
    LET s == [nil |-> FALSE, code |-> code, reasons |-> reasons,
              err |-> NilError, pluginName |-> ""]
    IN  IF code = Error THEN [s EXCEPT !.err = ErrorsNew(Message(s))] ELSE s

AsStatus(err) ==
    [nil |-> FALSE, code |-> Error, reasons |-> <<ErrorMessage(err)>>,
     err |-> err, pluginName |-> ""]

\* ------------------------------------------------------- PluginToStatus
EmptyStatuses == [k \in {} |-> NilStatus]

\* p[name] = s
MapPut(p, name, s) ==
    [k \in (DOMAIN p) \cup {name} |-> IF k = name THEN s ELSE p[k]]

\* The orders in which a range over map p can visit its keys.
VisitOrders(p) ==
    {o \in [1..Cardinality(DOMAIN p) -> DOMAIN p] :
        \A a, b \in DOMAIN o : a # b => o[a] # o[b]}

\* Merge dereferences every member (s.reasons): a nil member is a fault.
MergePanics(p) == \E k \in DOMAIN p : p[k].nil

RECURSIVE MergeLoop(_, _, _)
MergeLoop(p, order, finalStatus) ==
    IF order = <<>> THEN finalStatus
    ELSE
        LET s == p[Head(order)]
            withErr == IF Code(s) = Error
                       THEN [finalStatus EXCEPT !.err = AsError(s)]
                       ELSE finalStatus
            withCode == IF statusPrecedence(Code(s)) > statusPrecedence(withErr.code)
                        THEN [withErr EXCEPT !.code = Code(s),
                                             !.pluginName = s.pluginName]
                        ELSE withErr
            withReasons == [withCode EXCEPT !.reasons = @ \o s.reasons]
        IN  MergeLoop(p, Tail(order), withReasons)

RECURSIVE MergeLoopReasonsOfWorse(_, _, _)
MergeLoopReasonsOfWorse(p, order, finalStatus) ==
    IF order = <<>> THEN finalStatus
    ELSE
        LET s == p[Head(order)]
            withErr == IF Code(s) = Error
                       THEN [finalStatus EXCEPT !.err = AsError(s)]
                       ELSE finalStatus
            withCode == IF statusPrecedence(Code(s)) > statusPrecedence(withErr.code)
                        THEN [withErr EXCEPT !.code = Code(s),
                                             !.pluginName = s.pluginName,
                                             !.reasons = @ \o s.reasons]
                        ELSE withErr
        IN  MergeLoopReasonsOfWorse(p, Tail(order), withCode)

\* Mutant: the reasons are appended inside the precedence test, so only a
\* member that raises the code contributes its reasons.
MergeReasonsOfWorse(p, order) ==
    IF DOMAIN p = {} THEN NilStatus
    ELSE MergeLoopReasonsOfWorse(p, order, NewStatus(Success, <<>>))

RECURSIVE MergeLoopKeepingLast(_, _, _)
MergeLoopKeepingLast(p, order, finalStatus) ==
    IF order = <<>> THEN finalStatus
    ELSE
        LET s == p[Head(order)]
            withErr == IF Code(s) = Error
                       THEN [finalStatus EXCEPT !.err = AsError(s)]
                       ELSE finalStatus
            withCode == IF statusPrecedence(Code(s)) >= statusPrecedence(withErr.code)
                        THEN [withErr EXCEPT !.code = Code(s),
                                             !.pluginName = s.pluginName]
                        ELSE withErr
            withReasons == [withCode EXCEPT !.reasons = @ \o s.reasons]
        IN  MergeLoopKeepingLast(p, Tail(order), withReasons)

\* Mutant: the precedence test is >=, so a later member of equal precedence
\* replaces the code and the plugin name.
MergeKeepingLast(p, order) ==
    IF DOMAIN p = {} THEN NilStatus
    ELSE MergeLoopKeepingLast(p, order, NewStatus(Success, <<>>))

\* PluginToStatus.Merge, the map's entries visited in `order`.
Merge(p, order) ==
    IF DOMAIN p = {} THEN NilStatus
    ELSE MergeLoop(p, order, NewStatus(Success, <<>>))

\* ------------------------------------------------------------- the driver
VARIABLES
    f,          \* the Framework: one ordered plugin list per extension point
    op,         \* the run-operation in progress or last returned
    pc,         \* "idle", "run" (inside op's loop), "done" (op has returned)
    i,          \* the loop index of op: the next plugin to call
    calls,      \* the plugin methods op has invoked so far, in order
    statuses,   \* the local PluginToStatus of RunFilterPlugins/RunPostFilterPlugins
    ret,        \* what op returned: status, pool name, PluginToStatus
    reserved,   \* during a rollback that follows RunReservePluginsReserve: the
                \* Reserve calls that operation made (history)
    pools,      \* the pools passed to RunScorePlugins
    scorers,    \* per scoring plugin, how its Score method scores a pool
    scores,     \* the PluginToPoolScores RunScorePlugins returned
    held,       \* a *Status a caller holds
    origin,     \* where held comes from: "none", "nil", "NewStatus", "AsStatus",
                \* "Merge", or "panic" (the call that was to give it faulted)
    mp,         \* the PluginToStatus Merge was called on
    ord,        \* the order in which that Merge visited the map's keys
    obs,        \* what Code, IsSuccess, AsError and Message answered on a status
    cs,         \* the two CycleStates, the original and its clone: the map each
                \* one's storage field refers to ("none": no such CycleState)
    storage,    \* the storage maps, by reference
    csOp,       \* the last CycleState method called, its arguments and result
    hist,       \* per CycleState and key: "never" written, or the last Write
                \* or Delete of the key was "written" (and which value) or
                \* "deleted" (history)
    th,         \* per goroutine using the original CycleState: where it is in
                \* the method it called, the method's arguments and locals
    mx,         \* the original CycleState's RWMutex: the goroutine holding it
                \* for writing, the goroutines holding it for reading
    ctx         \* the context.Context passed to the run-operations: whether it
                \* is cancelled, and when it was with respect to the operation
                \* in progress or last returned (history)

driverVars == <<f, op, pc, i, calls, statuses, ret, reserved>>

scoreVars == <<pools, scorers, scores>>

statusVars == <<held, origin, mp, ord, obs>>

cycleVars == <<cs, storage, csOp, hist>>

lockVars == <<th, mx>>

vars == <<driverVars, scoreVars, statusVars, cycleVars, lockVars, ctx>>

Prefix(s, n) == SubSeq(s, 1, n)

\* A Framework with nr reserve plugins and n plugins at every other
\* extension point.  No operation reads two lists but the rollback, which
\* follows a failure of another stage, so the reserve list varies on its own.
Framework(n, nr) ==
    [preFilterPlugins  |-> Prefix(PluginNames, n),
     filterPlugins     |-> Prefix(PluginNames, n),
     postFilterPlugins |-> Prefix(PluginNames, n),
     preScorePlugins   |-> Prefix(PluginNames, n),
     scorePlugins      |-> Prefix(PluginNames, n),
     reservePlugins    |-> Prefix(PluginNames, nr),
     preBindPlugins    |-> Prefix(PluginNames, n),
     bindPlugins       |-> Prefix(PluginNames, n),
     postBindPlugins   |-> Prefix(PluginNames, n),
     permitPlugins     |-> Prefix(PluginNames, n)]

\* The run-operations the Framework defines, each with the plugin list it
\* ranges over.
RunOperations ==
    [PreFilter  |-> "preFilterPlugins",
     Filter     |-> "filterPlugins",
     PostFilter |-> "postFilterPlugins",
     PreScore   |-> "preScorePlugins",
     Reserve    |-> "reservePlugins",
     Unreserve  |-> "reservePlugins",
     PreBind    |-> "preBindPlugins",
     Bind       |-> "bindPlugins",
     Score      |-> "scorePlugins"]

\* The statuses a plugin can hand back to the driver.
PluginStatuses ==
    {NilStatus,
     NewStatus(Success, <<>>),
     NewStatus(Success, << <<"r1">> >>),
     NewStatus(Error, << <<"r1">> >>),
     AsStatus(ErrorsNew(<<"e1">>)),
     NewStatus(Unschedulable, <<>>),
     NewStatus(Unschedulable, << <<"r1">> >>),
     NewStatus(Unschedulable, << <<"r2">> >>),
     NewStatus(Unschedulable, << <<"r1">>, <<"r2">> >>),
     NewStatus(Wait, << <<"r1">> >>),
     NewStatus(Skip, <<>>),
     NewStatus(Skip, << <<"r2">> >>)}

NoReturn == [status |-> NilStatus, poolName |-> "", statuses |-> EmptyStatuses]

\* One plugin invocation: the method, the plugin, and what it returned (a
\* status, and a pool name for PostFilter; Unreserve returns nothing).
Call(method, pl, r, s) == [method |-> method, plugin |-> pl, poolName |-> r, status |-> s]

\* The closed range scores must lie in.
MinPoolScore == 0
MaxPoolScore == 100

\* The ways a Score method scores the k-th pool it is asked about: within
\* the range, above it, below it.
ScoreMethods == {"within", "above", "below"}

\* The score a plugin with Score method m returns for the k-th pool.
Score(m, k) ==
    IF m = "within" THEN MinPoolScore + k
    ELSE IF m = "above" THEN MaxPoolScore + k
    ELSE MinPoolScore - k

PoolScore(name, s) == [Name |-> name, Score |-> s]

EmptyScores == [k \in {} |-> <<>>]

NoArguments == pools = <<>> /\ scorers = <<>> /\ scores = EmptyScores

DriverInit ==
    /\ f \in {Framework(n, nr) : n \in 0..MaxPlugins, nr \in 0..MaxPlugins}
    /\ op = "none"
    /\ pc = "idle"
    /\ i = 0
    /\ calls = <<>>
    /\ statuses = EmptyStatuses
    /\ ret = NoReturn
    /\ reserved = <<>>
    /\ NoArguments

\* No status method has been called on anything yet.
NoObservation ==
    [subject |-> "none", code |-> Success, isSuccess |-> TRUE,
     asError |-> NilError, message |-> <<>>]

\* The caller holds no status yet.
NoStatus ==
    /\ held = NilStatus
    /\ origin = "none"
    /\ mp = EmptyStatuses
    /\ ord = <<>>

Unobserved == NoStatus /\ obs = NoObservation

\* ------------------------------------------------------------- CycleState
\* The keys plugins store data under.
StateKeys == {"k1", "k2"}

\* A StateData: nil (the interface holds nothing), or some data; `copy`
\* tells a value made by Clone() from the value it was made of.
NilData == [nil |-> TRUE, data |-> "", copy |-> 0]

StateData(data) == [nil |-> FALSE, data |-> data, copy |-> 0]

\* The values plugins write: nil, an empty value, a non-empty one.
WrittenData == {NilData, StateData(""), StateData("v1")}

\* v.Clone(): a copy of v with the same data.  Calling it on nil is a fault.
CloneData(v) == [v EXCEPT !.copy = @ + 1]

ErrNotFound == ErrorsNew(<<"not found">>)

\* make(map[StateKey]StateData)
EmptyStorage == [k \in {} |-> NilData]

NoResult == [value |-> NilData, err |-> NilError]

NoOperation ==
    [name |-> "none", on |-> "none", key |-> "", val |-> NilData,
     result |-> NoResult, fault |-> FALSE]

NeverWritten == [k \in StateKeys |-> [state |-> "never", val |-> NilData]]

\* NewCycleState(), once: the original exists with an empty map of its own.
NewCycleState ==
    /\ cs = [original |-> "m1", clone |-> "none"]
    /\ storage = [m1 |-> EmptyStorage, m2 |-> EmptyStorage]
    /\ csOp = NoOperation
    /\ hist = [original |-> NeverWritten, clone |-> NeverWritten]

\* The goroutines that share the original CycleState.
Goroutines == {"g1", "g2"}

\* A goroutine that is in no CycleState method.
IdleGoroutine == [pc |-> "idle", key |-> "", val |-> NilData, seen |-> {}]

\* The zero RWMutex, and no goroutine in any method.
Unlocked ==
    /\ th = [g \in Goroutines |-> IdleGoroutine]
    /\ mx = [writer |-> "none", readers |-> {}]

\* context.Background(): not cancelled.
Background == [done |-> FALSE, when |-> "never", calls |-> 0]

Init == DriverInit /\ Unobserved /\ NewCycleState /\ Unlocked /\ ctx = Background

\* The caller passes ctx to the run-operation: a context that is cancelled by
\* then is cancelled at the operation's start.
PassContext ==
    ctx' = IF ctx.done THEN [ctx EXCEPT !.when = "start", !.calls = 0] ELSE ctx

\* A run-operation starts with nothing left of an earlier RunScorePlugins.
ClearArguments == pools' = <<>> /\ scorers' = <<>> /\ scores' = EmptyScores

\* The caller enters run-operation o.
Invoke(o) ==
    /\ pc \in {"idle", "done"}
    /\ op' = o
    /\ pc' = "run"
    /\ i' = IF o = "Unreserve" THEN Len(f.reservePlugins) ELSE 1
    /\ calls' = <<>>
    /\ statuses' = EmptyStatuses
    /\ ret' = NoReturn
    /\ reserved' = IF o = "Unreserve" /\ op = "Reserve" THEN calls ELSE <<>>
    /\ UNCHANGED f

\* op returns status st (and pool name pool, PluginToStatus p).
Return(st, pool, p) ==
    /\ pc' = "done"
    /\ ret' = [status |-> st, poolName |-> pool, statuses |-> p]

\* Mutant: a Skip from a PreFilter plugin is passed over like a Success.
PreFilterBodyPassingSkip(pl, status) ==
    IF ~IsSuccess(status) /\ Code(status) # Skip
    THEN LET named == SetPluginName(status, pl)
         IN  IF IsUnschedulable(named)
             THEN [stop |-> TRUE, st |-> named]
             ELSE [stop |-> TRUE,
                   st |-> WithPluginName(
                       AsStatus(Errorf(<<"running PreFilter plugin ">> \o Quoted(pl) \o <<": ">>,
                                       AsError(named))), pl)]
    ELSE [stop |-> FALSE, st |-> status]

\* The body of RunPreFilterPlugins' loop for plugin pl returning status.
\* stop: the operation returns st; otherwise the loop goes on.
PreFilterBody(pl, status) ==
    IF ~IsSuccess(status)
    THEN LET named == SetPluginName(status, pl)
         IN  IF IsUnschedulable(named)
             THEN [stop |-> TRUE, st |-> named]
             ELSE [stop |-> TRUE,
                   st |-> WithPluginName(
                       AsStatus(Errorf(<<"running PreFilter plugin ">> \o Quoted(pl) \o <<": ">>,
                                       AsError(named))), pl)]
    ELSE [stop |-> FALSE, st |-> status]

RunPreFilterPlugins ==
    /\ op = "PreFilter" /\ pc = "run"
    /\ IF i > Len(f.preFilterPlugins)
       THEN /\ Return(NilStatus, "", EmptyStatuses)
            /\ UNCHANGED <<i, calls>>
       ELSE \E status \in PluginStatuses :
              LET pl == f.preFilterPlugins[i]
                  b == PreFilterBody(pl, status)
              IN  /\ calls' = Append(calls, Call("PreFilter", pl, "", status))
                  /\ IF b.stop
                     THEN Return(b.st, "", EmptyStatuses) /\ UNCHANGED i
                     ELSE i' = i + 1 /\ UNCHANGED <<pc, ret>>
    /\ UNCHANGED <<f, op, statuses, reserved>>

\* Mutant: the first Unschedulable ends the loop, as in RunPreFilterPlugins.
FilterBodyStoppingAtUnschedulable(pl, pluginStatus, p) ==
    IF ~IsSuccess(pluginStatus)
    THEN IF ~IsUnschedulable(pluginStatus)
         THEN LET errStatus ==
                    WithPluginName(
                        AsStatus(Errorf(<<"running ">> \o Quoted(pl) \o <<" filter plugin: ">>,
                                        AsError(pluginStatus))), pl)
              IN  [stop |-> TRUE, p |-> MapPut(EmptyStatuses, pl, errStatus)]
         ELSE [stop |-> TRUE, p |-> MapPut(p, pl, SetPluginName(pluginStatus, pl))]
    ELSE [stop |-> FALSE, p |-> p]

\* Mutant: the Error status is added to the statuses recorded so far.
FilterBodyKeepingRecorded(pl, pluginStatus, p) ==
    IF ~IsSuccess(pluginStatus)
    THEN IF ~IsUnschedulable(pluginStatus)
         THEN LET errStatus ==
                    WithPluginName(
                        AsStatus(Errorf(<<"running ">> \o Quoted(pl) \o <<" filter plugin: ">>,
                                        AsError(pluginStatus))), pl)
              IN  [stop |-> TRUE, p |-> MapPut(p, pl, errStatus)]
         ELSE [stop |-> FALSE, p |-> MapPut(p, pl, SetPluginName(pluginStatus, pl))]
    ELSE [stop |-> FALSE, p |-> p]

\* The body of RunFilterPlugins' loop: p is the local map `statuses`.
\* stop: the operation returns p; otherwise the loop goes on with p.
FilterBody(pl, pluginStatus, p) ==
    IF ~IsSuccess(pluginStatus)
    THEN IF ~IsUnschedulable(pluginStatus)
         THEN LET errStatus ==
                    WithPluginName(
                        AsStatus(Errorf(<<"running ">> \o Quoted(pl) \o <<" filter plugin: ">>,
                                        AsError(pluginStatus))), pl)
              IN  [stop |-> TRUE, p |-> MapPut(EmptyStatuses, pl, errStatus)]
         ELSE [stop |-> FALSE, p |-> MapPut(p, pl, SetPluginName(pluginStatus, pl))]
    ELSE [stop |-> FALSE, p |-> p]

RunFilterPlugins ==
    /\ op = "Filter" /\ pc = "run"
    /\ IF i > Len(f.filterPlugins)
       THEN /\ Return(NilStatus, "", statuses)
            /\ UNCHANGED <<i, calls, statuses>>
       ELSE \E pluginStatus \in PluginStatuses :
              LET pl == f.filterPlugins[i]
                  b == FilterBody(pl, pluginStatus, statuses)
              IN  /\ calls' = Append(calls, Call("Filter", pl, "", pluginStatus))
                  /\ IF b.stop
                     THEN Return(NilStatus, "", b.p) /\ UNCHANGED <<i, statuses>>
                     ELSE i' = i + 1 /\ statuses' = b.p /\ UNCHANGED <<pc, ret>>
    /\ UNCHANGED <<f, op, reserved>>

\* Mutant: a status other than Success and Unschedulable is recorded and
\* the loop goes on.
PostFilterBodyRecordingAll(pl, r, s, p) ==
    IF IsSuccess(s)
    THEN [stop |-> TRUE, poolName |-> r, st |-> s, p |-> p]
    ELSE [stop |-> FALSE, poolName |-> "", st |-> s, p |-> MapPut(p, pl, s)]

\* The body of RunPostFilterPlugins' loop: the plugin returned (r, s).
PostFilterBody(pl, r, s, p) ==
    IF IsSuccess(s)
    THEN [stop |-> TRUE, poolName |-> r, st |-> s, p |-> p]
    ELSE IF ~IsUnschedulable(s)
    THEN [stop |-> TRUE, poolName |-> "", st |-> AsStatus(AsError(s)), p |-> p]
    ELSE [stop |-> FALSE, poolName |-> "", st |-> s, p |-> MapPut(p, pl, s)]

RunPostFilterPlugins ==
    /\ op = "PostFilter" /\ pc = "run"
    /\ IF i > Len(f.postFilterPlugins)
       THEN /\ IF MergePanics(statuses)
               THEN pc' = "panic" /\ UNCHANGED ret
               ELSE \E order \in VisitOrders(statuses) :
                        Return(Merge(statuses, order), "", EmptyStatuses)
            /\ UNCHANGED <<i, calls, statuses>>
       ELSE \E r \in PoolNames, s \in PluginStatuses :
              LET pl == f.postFilterPlugins[i]
                  b == PostFilterBody(pl, r, s, statuses)
              IN  /\ calls' = Append(calls, Call("PostFilter", pl, r, s))
                  /\ IF b.stop
                     THEN Return(b.st, b.poolName, EmptyStatuses) /\ UNCHANGED <<i, statuses>>
                     ELSE i' = i + 1 /\ statuses' = b.p /\ UNCHANGED <<pc, ret>>
    /\ UNCHANGED <<f, op, reserved>>

\* The body of RunPreScorePlugins' loop.
PreScoreBody(pl, status) ==
    IF ~IsSuccess(status)
    THEN [stop |-> TRUE,
          st |-> AsStatus(Errorf(<<"running PreScore plugin ">> \o Quoted(pl) \o <<": ">>,
                                 AsError(status)))]
    ELSE [stop |-> FALSE, st |-> status]

RunPreScorePlugins ==
    /\ op = "PreScore" /\ pc = "run"
    /\ IF i > Len(f.preScorePlugins)
       THEN /\ Return(NilStatus, "", EmptyStatuses)
            /\ UNCHANGED <<i, calls>>
       ELSE \E status \in PluginStatuses :
              LET pl == f.preScorePlugins[i]
                  b == PreScoreBody(pl, status)
              IN  /\ calls' = Append(calls, Call("PreScore", pl, "", status))
                  /\ IF b.stop
                     THEN Return(b.st, "", EmptyStatuses) /\ UNCHANGED i
                     ELSE i' = i + 1 /\ UNCHANGED <<pc, ret>>
    /\ UNCHANGED <<f, op, statuses, reserved>>

\* Mutant: an Unschedulable from a Reserve plugin is returned as it is, as
\* in RunPreFilterPlugins.
ReserveBodyPassingUnschedulable(pl, status) ==
    IF ~IsSuccess(status)
    THEN IF IsUnschedulable(status)
         THEN [stop |-> TRUE, st |-> status]
         ELSE [stop |-> TRUE,
               st |-> AsStatus(Errorf(<<"running Reserve plugin ">> \o Quoted(pl) \o <<": ">>,
                                      AsError(status)))]
    ELSE [stop |-> FALSE, st |-> status]

\* The body of RunReservePluginsReserve's loop.
ReserveBody(pl, status) ==
    IF ~IsSuccess(status)
    THEN LET err == AsError(status)
         IN  [stop |-> TRUE,
              st |-> AsStatus(Errorf(<<"running Reserve plugin ">> \o Quoted(pl) \o <<": ">>,
                                     err))]
    ELSE [stop |-> FALSE, st |-> status]

Reverse(s) == [k \in 1..Len(s) |-> s[Len(s) - k + 1]]

\* The Unreserve calls on the plugins of list pls, in the list's order.
UnreserveCalls(pls) == [k \in 1..Len(pls) |-> Call("Unreserve", pls[k], "", NilStatus)]

\* Mutant: RunReservePluginsReserve rolls the reservation back itself before
\* it returns a failure.
ReserveRollingBack ==
    /\ op = "Reserve" /\ pc = "run"
    /\ IF i > Len(f.reservePlugins)
       THEN /\ Return(NilStatus, "", EmptyStatuses)
            /\ UNCHANGED <<i, calls>>
       ELSE \E status \in PluginStatuses :
              LET pl == f.reservePlugins[i]
                  b == ReserveBody(pl, status)
              IN  IF b.stop
                  THEN /\ calls' = Append(calls, Call("Reserve", pl, "", status))
                                      \o UnreserveCalls(Reverse(f.reservePlugins))
                       /\ Return(b.st, "", EmptyStatuses) /\ UNCHANGED i
                  ELSE /\ calls' = Append(calls, Call("Reserve", pl, "", status))
                       /\ i' = i + 1 /\ UNCHANGED <<pc, ret>>
    /\ UNCHANGED <<f, op, statuses, reserved>>

RunReservePluginsReserve ==
    /\ op = "Reserve" /\ pc = "run"
    /\ IF i > Len(f.reservePlugins)
       THEN /\ Return(NilStatus, "", EmptyStatuses)
            /\ UNCHANGED <<i, calls>>
       ELSE \E status \in PluginStatuses :
              LET pl == f.reservePlugins[i]
                  b == ReserveBody(pl, status)
              IN  /\ calls' = Append(calls, Call("Reserve", pl, "", status))
                  /\ IF b.stop
                     THEN Return(b.st, "", EmptyStatuses) /\ UNCHANGED i
                     ELSE i' = i + 1 /\ UNCHANGED <<pc, ret>>
    /\ UNCHANGED <<f, op, statuses, reserved>>

\* Mutant: the loop stops one plugin early (i > 0).
UnreserveStopsEarly(k) == k >= 2

\* The condition of RunReservePluginsUnreserve's loop (i >= 0 on Go's
\* indices from 0, k >= 1 on indices from 1).
UnreserveLoops(k) == k >= 1

\* The loop starts at the last reserve plugin (Invoke) and walks down.
RunReservePluginsUnreserve ==
    /\ op = "Unreserve" /\ pc = "run"
    /\ IF UnreserveLoops(i)
       THEN /\ calls' = Append(calls, Call("Unreserve", f.reservePlugins[i], "", NilStatus))
            /\ i' = i - 1
            /\ UNCHANGED <<pc, ret>>
       ELSE /\ Return(NilStatus, "", EmptyStatuses)
            /\ UNCHANGED <<i, calls>>
    /\ UNCHANGED <<f, op, statuses, reserved>>

\* Mutant: a non-Success status of a PreBind plugin is returned as it is.
PreBindBodyPassingStatus(pl, status) ==
    IF ~IsSuccess(status)
    THEN [stop |-> TRUE, st |-> status]
    ELSE [stop |-> FALSE, st |-> status]

\* The body of RunPreBindPlugins' loop.
PreBindBody(pl, status) ==
    IF ~IsSuccess(status)
    THEN LET err == AsError(status)
         IN  [stop |-> TRUE,
              st |-> AsStatus(Errorf(<<"running PreBind plugin ">> \o Quoted(pl) \o <<": ">>,
                                     err))]
    ELSE [stop |-> FALSE, st |-> status]

RunPreBindPlugins ==
    /\ op = "PreBind" /\ pc = "run"
    /\ IF i > Len(f.preBindPlugins)
       THEN /\ Return(NilStatus, "", EmptyStatuses)
            /\ UNCHANGED <<i, calls>>
       ELSE \E status \in PluginStatuses :
              LET pl == f.preBindPlugins[i]
                  b == PreBindBody(pl, status)
              IN  /\ calls' = Append(calls, Call("PreBind", pl, "", status))
                  /\ IF b.stop
                     THEN Return(b.st, "", EmptyStatuses) /\ UNCHANGED i
                     ELSE i' = i + 1 /\ UNCHANGED <<pc, ret>>
    /\ UNCHANGED <<f, op, statuses, reserved>>

\* Mutant: the deciding plugin's status is returned as it is, whatever its
\* code.
BindBodyReturningStatus(bp, status) ==
    IF ~status.nil /\ Code(status) = Skip
    THEN [stop |-> FALSE, st |-> status]
    ELSE [stop |-> TRUE, st |-> status]

\* The body of RunBindPlugins' loop.  stop = FALSE is `continue`; the named
\* result `status` holds st either way.
BindBody(bp, status) ==
    IF ~status.nil /\ Code(status) = Skip
    THEN [stop |-> FALSE, st |-> status]
    ELSE IF ~IsSuccess(status)
    THEN LET err == AsError(status)
         IN  [stop |-> TRUE,
              st |-> AsStatus(Errorf(<<"running Bind plugin ">> \o Quoted(bp) \o <<": ">>,
                                     err))]
    ELSE [stop |-> TRUE, st |-> status]

\* The named result `status` is the return slot ret.status: the loop assigns
\* it at every plugin call and the final `return status` returns it as it is.
RunBindPlugins ==
    /\ op = "Bind" /\ pc = "run"
    /\ IF Len(f.bindPlugins) = 0
       THEN /\ Return(NewStatus(Skip, << <<>> >>), "", EmptyStatuses)
            /\ UNCHANGED <<i, calls>>
       ELSE IF i > Len(f.bindPlugins)
       THEN /\ Return(ret.status, "", EmptyStatuses)
            /\ UNCHANGED <<i, calls>>
       ELSE \E status \in PluginStatuses :
              LET bp == f.bindPlugins[i]
                  b == BindBody(bp, status)
              IN  /\ calls' = Append(calls, Call("Bind", bp, "", status))
                  /\ IF b.stop
                     THEN Return(b.st, "", EmptyStatuses) /\ UNCHANGED i
                     ELSE /\ i' = i + 1
                          /\ ret' = [ret EXCEPT !.status = b.st]
                          /\ UNCHANGED pc
    /\ UNCHANGED <<f, op, statuses, reserved>>

\* The list pluginToPoolScores[pl.Name()] is made with: len(pools) zero
\* PoolScore values.
MakePoolScoreList(n) == [k \in 1..n |-> PoolScore("", 0)]

\* RunScorePlugins, called on some pools while each scoring plugin would score
\* them in some way, makes one list per scoring plugin and returns the map
\* with a nil status; it calls no plugin.
RunScorePlugins ==
    /\ op = "Score" /\ pc = "run"
    /\ pools' \in {Prefix(PoolList, n) : n \in 0..MaxPools}
    /\ scorers' \in [1..Len(f.scorePlugins) -> ScoreMethods]
    /\ scores' = [name \in {f.scorePlugins[k] : k \in 1..Len(f.scorePlugins)} |->
                      MakePoolScoreList(Len(pools'))]
    /\ Return(NilStatus, "", EmptyStatuses)
    /\ UNCHANGED <<f, op, i, calls, statuses, reserved>>

\* The caller starts a run-operation while it holds no status of its own and
\* has read none; the operation's steps touch nothing outside the driver.
DriverNext ==
    \/ \E o \in DOMAIN RunOperations :
          /\ Invoke(o) /\ PassContext /\ ClearArguments
          /\ Unobserved /\ UNCHANGED <<statusVars, cycleVars, lockVars>>
    \/ RunPreFilterPlugins /\ UNCHANGED <<scoreVars, statusVars, cycleVars, lockVars, ctx>>
    \/ RunFilterPlugins /\ UNCHANGED <<scoreVars, statusVars, cycleVars, lockVars, ctx>>
    \/ RunPostFilterPlugins /\ UNCHANGED <<scoreVars, statusVars, cycleVars, lockVars, ctx>>
    \/ RunPreScorePlugins /\ UNCHANGED <<scoreVars, statusVars, cycleVars, lockVars, ctx>>
    \/ RunReservePluginsReserve /\ UNCHANGED <<scoreVars, statusVars, cycleVars, lockVars, ctx>>
    \/ RunReservePluginsUnreserve /\ UNCHANGED <<scoreVars, statusVars, cycleVars, lockVars, ctx>>
    \/ RunPreBindPlugins /\ UNCHANGED <<scoreVars, statusVars, cycleVars, lockVars, ctx>>
    \/ RunBindPlugins /\ UNCHANGED <<scoreVars, statusVars, cycleVars, lockVars, ctx>>
    \/ RunScorePlugins /\ UNCHANGED <<statusVars, cycleVars, lockVars, ctx>>

Next == DriverNext

\* The loop of the operation in progress has a plugin left to call.
PluginsLeft ==
    IF op = "Unreserve" THEN i >= 1
    ELSE IF op = "Score" THEN FALSE
    ELSE i <= Len(f[RunOperations[op]])

\* ctx is cancelled (by its owner, or by its deadline) before the first
\* run-operation starts, before the running operation's first plugin call, or
\* between two of its plugin calls.  No run-operation reads ctx; each one
\* hands it to the plugins it calls.
Cancel ==
    /\ ~ctx.done
    /\ pc = "idle" \/ (pc = "run" /\ PluginsLeft)
    /\ ctx' = [done |-> TRUE,
               when |-> IF pc = "idle" THEN "idle"
                        ELSE IF calls = <<>> THEN "start"
                        ELSE "between",
               calls |-> Len(calls)]
    /\ UNCHANGED <<driverVars, scoreVars, statusVars, cycleVars, lockVars>>

CtxNext ==
    \/ Cancel
    \/ DriverNext

CtxSpec == Init /\ [][CtxNext]_vars

Spec == Init /\ [][Next]_vars

\* ------------------------------------------ statuses a caller makes and reads
\* The reason lists NewStatus is called with.
ReasonLists ==
    {<<>>, << <<"r1">> >>, << <<"r1">>, <<"r2">> >>, << <<>> >>}

\* The errors AsStatus is called with: a plain one and a wrapping one.
Errors == {ErrorsNew(<<"e1">>), Errorf(<<"w: ">>, ErrorsNew(<<"e2">>))}

\* The PluginToStatus maps Merge is called on: up to MaxMembers plugins, each
\* with a status a plugin can return, named after its plugin unless nil.
StatusMaps ==
    UNION {{[k \in DOMAIN m |-> IF m[k].nil THEN m[k] ELSE WithPluginName(m[k], k)] :
               m \in [{PluginNames[k] : k \in 1..n} -> PluginStatuses]} :
           n \in 0..MaxMembers}

\* What the four reading methods answer on s.
Observation(subject, s) ==
    [subject |-> subject, code |-> Code(s), isSuccess |-> IsSuccess(s),
     asError |-> AsError(s), message |-> Message(s)]

\* var s *Status
DeclareNil ==
    /\ pc = "idle"
    /\ origin = "none"
    /\ held' = NilStatus
    /\ origin' = "nil"
    /\ UNCHANGED <<mp, ord, obs, driverVars, scoreVars, cycleVars, lockVars, ctx>>

CallNewStatus ==
    /\ pc = "idle"
    /\ origin = "none"
    /\ \E code \in Codes, reasons \in ReasonLists : held' = NewStatus(code, reasons)
    /\ origin' = "NewStatus"
    /\ UNCHANGED <<mp, ord, obs, driverVars, scoreVars, cycleVars, lockVars, ctx>>

CallAsStatus ==
    /\ pc = "idle"
    /\ origin = "none"
    /\ \E err \in Errors : held' = AsStatus(err)
    /\ origin' = "AsStatus"
    /\ UNCHANGED <<mp, ord, obs, driverVars, scoreVars, cycleVars, lockVars, ctx>>

\* p.Merge(): the range visits the entries in some order; a nil member makes
\* the loop fault, so no status comes back.
CallMerge ==
    /\ pc = "idle"
    /\ origin = "none"
    /\ \E p \in StatusMaps : \E order \in VisitOrders(p) :
          /\ mp' = p
          /\ ord' = order
          /\ IF MergePanics(p)
             THEN held' = NilStatus /\ origin' = "panic"
             ELSE held' = Merge(p, order) /\ origin' = "Merge"
    /\ UNCHANGED <<obs, driverVars, scoreVars, cycleVars, lockVars, ctx>>

\* The caller reads the status it holds.
Observe ==
    /\ origin \notin {"none", "panic"}
    /\ obs = NoObservation
    /\ obs' = Observation("held", held)
    /\ UNCHANGED <<held, origin, mp, ord, driverVars, scoreVars, cycleVars, lockVars, ctx>>

\* The caller reads the status a run-operation returned.
ObserveReturn ==
    /\ pc = "done"
    /\ op # "Unreserve"
    /\ obs = NoObservation
    /\ obs' = Observation("ret", ret.status)
    /\ UNCHANGED <<held, origin, mp, ord, driverVars, scoreVars, cycleVars, lockVars, ctx>>

StatusNext ==
    \/ DeclareNil
    \/ CallNewStatus
    \/ CallAsStatus
    \/ CallMerge
    \/ Observe
    \/ ObserveReturn
    \/ DriverNext

StatusSpec == Init /\ [][StatusNext]_vars

\* --------------------------------------------- plugins using a CycleState
\* The CycleStates that exist.
CycleStates == {c \in DOMAIN cs : cs[c] # "none"}

\* Mutant: a key whose value is nil is reported as not found.
ReadMissingWhenNil(c, key) ==
    IF key \in DOMAIN storage[cs[c]] /\ ~storage[cs[c]][key].nil
    THEN [value |-> storage[cs[c]][key], err |-> NilError]
    ELSE [value |-> NilData, err |-> ErrNotFound]

\* c.Read(key)
Read(c, key) ==
    IF key \in DOMAIN storage[cs[c]]
    THEN [value |-> storage[cs[c]][key], err |-> NilError]
    ELSE [value |-> NilData, err |-> ErrNotFound]

CallRead ==
    /\ \E c \in CycleStates, key \in StateKeys :
          csOp' = [NoOperation EXCEPT !.name = "Read", !.on = c, !.key = key,
                                      !.result = Read(c, key)]
    /\ UNCHANGED <<cs, storage, hist>>

\* c.Write(key, val): c.storage[key] = val
CallWrite ==
    /\ \E c \in CycleStates, key \in StateKeys, val \in WrittenData :
          /\ storage' = [storage EXCEPT ![cs[c]] =
                 [k \in (DOMAIN @) \cup {key} |-> IF k = key THEN val ELSE @[k]]]
          /\ hist' = [hist EXCEPT ![c][key] = [state |-> "written", val |-> val]]
          /\ csOp' = [NoOperation EXCEPT !.name = "Write", !.on = c, !.key = key,
                                         !.val = val]
    /\ UNCHANGED cs

\* c.Delete(key): delete(c.storage, key)
CallDelete ==
    /\ \E c \in CycleStates, key \in StateKeys :
          /\ storage' = [storage EXCEPT ![cs[c]] =
                 [k \in (DOMAIN @) \ {key} |-> @[k]]]
          /\ hist' = [hist EXCEPT ![c][key] = [state |-> "deleted", val |-> NilData]]
          /\ csOp' = [NoOperation EXCEPT !.name = "Delete", !.on = c, !.key = key]
    /\ UNCHANGED cs

\* Mutant: the clone is given the original's map instead of a map of its own.
CallCloneSharingStorage ==
    /\ cs' = [cs EXCEPT !.clone = cs.original]
    /\ hist' = [hist EXCEPT !.clone = hist.original]
    /\ csOp' = [NoOperation EXCEPT !.name = "Clone", !.on = "original"]
    /\ UNCHANGED storage

\* clone = original.Clone(): a new CycleState with a map of its own, into
\* which every entry's v.Clone() is written; v.Clone() on a nil value is a
\* fault, and then no clone comes back.
CallClone ==
    LET from == storage[cs.original] IN
    IF \E k \in DOMAIN from : from[k].nil
    THEN /\ csOp' = [NoOperation EXCEPT !.name = "Clone", !.on = "original",
                                        !.fault = TRUE]
         /\ UNCHANGED <<cs, storage, hist>>
    ELSE /\ cs' = [cs EXCEPT !.clone = "m2"]
         /\ storage' = [storage EXCEPT !.m2 = [k \in DOMAIN from |-> CloneData(from[k])]]
         /\ hist' = [hist EXCEPT !.clone =
                [k \in StateKeys |->
                    IF k \in DOMAIN from
                    THEN [state |-> "written", val |-> CloneData(from[k])]
                    ELSE [state |-> "never", val |-> NilData]]]
         /\ csOp' = [NoOperation EXCEPT !.name = "Clone", !.on = "original"]

CycleNext ==
    \/ CallRead /\ UNCHANGED <<driverVars, scoreVars, statusVars, lockVars, ctx>>
    \/ CallWrite /\ UNCHANGED <<driverVars, scoreVars, statusVars, lockVars, ctx>>
    \/ CallDelete /\ UNCHANGED <<driverVars, scoreVars, statusVars, lockVars, ctx>>
    \/ CallClone /\ UNCHANGED <<driverVars, scoreVars, statusVars, lockVars, ctx>>

\* The CycleState is used on its own: no plugin is registered, no
\* run-operation is called.
CycleInit == Init /\ f = Framework(0, 0)

CycleSpec == CycleInit /\ [][CycleNext]_vars

\* ------------------------------- goroutines sharing the original CycleState
\* Each action is one step of a method of part_000:41-76, taken by goroutine
\* g on the original CycleState; a goroutine is at pc X when X is the next
\* thing it does.  A fatal error of the runtime stops every goroutine.
Running == \A g \in Goroutines : th[g].pc # "fatal"

\* g calls c.Read(key): next is c.mx.RLock().
EnterRead(g) ==
    /\ Running /\ th[g].pc = "idle"
    /\ \E key \in StateKeys :
          th' = [th EXCEPT ![g] = [IdleGoroutine EXCEPT !.pc = "RLock", !.key = key]]
    /\ UNCHANGED <<mx, cs, storage>>

\* c.mx.RLock(): waits while a goroutine holds the lock for writing.
RLock(g) ==
    /\ Running /\ th[g].pc = "RLock"
    /\ mx.writer = "none"
    /\ mx' = [mx EXCEPT !.readers = @ \cup {g}]
    /\ th' = [th EXCEPT ![g].pc = "lookup"]
    /\ UNCHANGED <<cs, storage>>

\* v, ok := c.storage[key]
Lookup(g) ==
    /\ Running /\ th[g].pc = "lookup"
    /\ th' = [th EXCEPT ![g].pc = "RUnlock", ![g].val = Read("original", th[g].key).value]
    /\ UNCHANGED <<mx, cs, storage>>

\* defer c.mx.RUnlock(), and the return.
RUnlock(g) ==
    /\ Running /\ th[g].pc = "RUnlock"
    /\ mx' = [mx EXCEPT !.readers = @ \ {g}]
    /\ th' = [th EXCEPT ![g] = IdleGoroutine]
    /\ UNCHANGED <<cs, storage>>

\* g calls c.Write(key, val) or c.Delete(key): next is c.mx.Lock().
EnterWrite(g) ==
    /\ Running /\ th[g].pc = "idle"
    /\ \E key \in StateKeys, val \in WrittenData :
          th' = [th EXCEPT ![g] = [IdleGoroutine EXCEPT !.pc = "Lock", !.key = key, !.val = val]]
    /\ UNCHANGED <<mx, cs, storage>>

EnterDelete(g) ==
    /\ Running /\ th[g].pc = "idle"
    /\ \E key \in StateKeys :
          th' = [th EXCEPT ![g] = [IdleGoroutine EXCEPT !.pc = "Lock (Delete)", !.key = key]]
    /\ UNCHANGED <<mx, cs, storage>>

\* c.mx.Lock(): waits while any goroutine holds the lock.
Lock(g) ==
    /\ Running /\ th[g].pc \in {"Lock", "Lock (Delete)"}
    /\ mx.writer = "none" /\ mx.readers = {}
    /\ mx' = [mx EXCEPT !.writer = g]
    /\ th' = [th EXCEPT ![g].pc = IF th[g].pc = "Lock" THEN "store" ELSE "delete"]
    /\ UNCHANGED <<cs, storage>>

\* c.storage[key] = val
Store(g) ==
    /\ Running /\ th[g].pc = "store"
    /\ storage' = [storage EXCEPT ![cs.original] =
           [k \in (DOMAIN @) \cup {th[g].key} |-> IF k = th[g].key THEN th[g].val ELSE @[k]]]
    /\ th' = [th EXCEPT ![g].pc = "Unlock"]
    /\ UNCHANGED <<mx, cs>>

\* delete(c.storage, key)
DeleteKey(g) ==
    /\ Running /\ th[g].pc = "delete"
    /\ storage' = [storage EXCEPT ![cs.original] = [k \in (DOMAIN @) \ {th[g].key} |-> @[k]]]
    /\ th' = [th EXCEPT ![g].pc = "Unlock"]
    /\ UNCHANGED <<mx, cs>>

\* c.mx.Unlock(), and the return.
Unlock(g) ==
    /\ Running /\ th[g].pc = "Unlock"
    /\ mx' = [mx EXCEPT !.writer = "none"]
    /\ th' = [th EXCEPT ![g] = IdleGoroutine]
    /\ UNCHANGED <<cs, storage>>

\* Another goroutine is about to write the original's map or delete from it.
WriterAtMap(g) == \E w \in Goroutines \ {g} : th[w].pc \in {"store", "delete"}

\* g calls c.Clone(): copy := NewCycleState(), a map of its own (an earlier
\* clone is dropped); next is the range over c.storage.  One goroutine
\* clones at a time.
EnterClone(g) ==
    /\ Running /\ th[g].pc = "idle"
    /\ \A o \in Goroutines : th[o].pc # "range"
    /\ cs' = [cs EXCEPT !.clone = "none"]
    /\ storage' = [storage EXCEPT !.m2 = EmptyStorage]
    /\ th' = [th EXCEPT ![g] = [IdleGoroutine EXCEPT !.pc = "range"]]
    /\ UNCHANGED mx

\* One turn of `for k, v := range c.storage { copy.Write(k, v.Clone()) }`,
\* or its end and the return of copy.  The range takes no lock.  It yields an
\* entry not yet seen; v.Clone() on a nil value is a fault; while another
\* goroutine is writing the map the runtime may stop the program (concurrent
\* map iteration and map write) or let the range go on.
Range(g) ==
    /\ Running /\ th[g].pc = "range"
    /\ LET from == storage[cs.original]
           left == (DOMAIN from) \ th[g].seen
       IN  \/ /\ WriterAtMap(g)
              /\ th' = [th EXCEPT ![g].pc = "fatal"]
              /\ UNCHANGED <<cs, storage>>
           \/ /\ left # {}
              /\ \E k \in left :
                    IF from[k].nil
                    THEN /\ th' = [th EXCEPT ![g].pc = "fatal"]
                         /\ UNCHANGED <<cs, storage>>
                    ELSE /\ storage' = [storage EXCEPT !.m2 =
                                [j \in (DOMAIN @) \cup {k} |->
                                    IF j = k THEN CloneData(from[k]) ELSE @[j]]]
                         /\ th' = [th EXCEPT ![g].seen = @ \cup {k}]
                         /\ UNCHANGED cs
           \/ /\ left = {}
              /\ cs' = [cs EXCEPT !.clone = "m2"]
              /\ th' = [th EXCEPT ![g] = IdleGoroutine]
              /\ UNCHANGED storage
    /\ UNCHANGED mx

LockNext ==
    \E g \in Goroutines :
        \/ EnterRead(g) /\ UNCHANGED <<driverVars, scoreVars, statusVars, csOp, hist, ctx>>
        \/ RLock(g) /\ UNCHANGED <<driverVars, scoreVars, statusVars, csOp, hist, ctx>>
        \/ Lookup(g) /\ UNCHANGED <<driverVars, scoreVars, statusVars, csOp, hist, ctx>>
        \/ RUnlock(g) /\ UNCHANGED <<driverVars, scoreVars, statusVars, csOp, hist, ctx>>
        \/ EnterWrite(g) /\ UNCHANGED <<driverVars, scoreVars, statusVars, csOp, hist, ctx>>
        \/ EnterDelete(g) /\ UNCHANGED <<driverVars, scoreVars, statusVars, csOp, hist, ctx>>
        \/ Lock(g) /\ UNCHANGED <<driverVars, scoreVars, statusVars, csOp, hist, ctx>>
        \/ Store(g) /\ UNCHANGED <<driverVars, scoreVars, statusVars, csOp, hist, ctx>>
        \/ DeleteKey(g) /\ UNCHANGED <<driverVars, scoreVars, statusVars, csOp, hist, ctx>>
        \/ Unlock(g) /\ UNCHANGED <<driverVars, scoreVars, statusVars, csOp, hist, ctx>>
        \/ EnterClone(g) /\ UNCHANGED <<driverVars, scoreVars, statusVars, csOp, hist, ctx>>
        \/ Range(g) /\ UNCHANGED <<driverVars, scoreVars, statusVars, csOp, hist, ctx>>

LockSpec == CycleInit /\ [][LockNext]_vars

\* ------------------------------------------------------------ the claims
Returned(o) == pc = "done" /\ op = o

\* The plugins called so far, in call order.
CalledPlugins == [k \in 1..Len(calls) |-> calls[k].plugin]

\* The run-operations from Reserve onward that return a status.
FromReserveOnward == {"Reserve", "PreBind", "Bind"}

Failed == Code(ret.status) = Error

\* C1 as stated: when RunReservePluginsReserve, RunPreBindPlugins or
\* RunBindPlugins returns a failure, Unreserve has been invoked on every
\* registered reserve plugin before the return.
C1_UnreserveBeforeFailureReturned ==
    (pc = "done" /\ op \in FromReserveOnward /\ Failed) =>
        \A n \in 1..Len(f.reservePlugins) :
            \E k \in 1..Len(calls) :
                calls[k].method = "Unreserve" /\ calls[k].plugin = f.reservePlugins[n]

\* C1 amended: a run-operation from Reserve onward returns its failure
\* without invoking Unreserve on any plugin; only RunReservePluginsUnreserve,
\* which the caller invokes, calls Unreserve.
C1_FailureReturnedWithoutUnreserve ==
    /\ (pc = "done" /\ op \in FromReserveOnward /\ Failed) =>
           \A k \in 1..Len(calls) : calls[k].method = op
    /\ \A k \in 1..Len(calls) : calls[k].method = "Unreserve" => op = "Unreserve"

\* A Reserve plugin failed with reserve plugins registered, and the failure
\* has been returned.
C1_Witness ==
    /\ Returned("Reserve") /\ Failed
    /\ Len(f.reservePlugins) = 3 /\ Len(calls) = 2

\* C2: RunReservePluginsUnreserve calls Unreserve once on every registered
\* reserve plugin, in reverse registration order, whichever plugins had
\* Reserve called and whatever Reserve returned.
C2_UnreserveReverseOrder ==
    /\ op = "Unreserve" =>
           calls = UnreserveCalls(Prefix(Reverse(f.reservePlugins), Len(calls)))
    /\ Returned("Unreserve") => Len(calls) = Len(f.reservePlugins)

\* Reserve ran on A (Success) and B (failure) only, of [A, B, C]; the rollback
\* has run to its end.
C2_Witness ==
    /\ Returned("Unreserve")
    /\ Len(f.reservePlugins) = 3
    /\ Len(reserved) = 2
    /\ IsSuccess(reserved[1].status) /\ ~IsSuccess(reserved[2].status)
    /\ CalledPlugins = <<"C", "B", "A">>

\* The calls so far are calls of `method` on the plugins of pls, in
\* registration order from the first.
InOrder(method, pls) ==
    /\ Len(calls) <= Len(pls)
    /\ CalledPlugins = Prefix(pls, Len(calls))
    /\ \A k \in 1..Len(calls) : calls[k].method = method

IsSkip(s) == Code(s) = Skip

\* C3: RunPreFilterPlugins calls the plugins in registration order, stops at
\* the first non-Success, returns Success when all returned Success (also
\* with none registered), the plugin's own code and reasons when it returned
\* Unschedulable, and an Error carrying the plugin's name otherwise.
C3_PreFilterFirstNonSuccess ==
    op = "PreFilter" =>
        LET pls == f.preFilterPlugins
            n == Len(calls)
        IN  /\ InOrder("PreFilter", pls)
            /\ \A k \in 1..(n - 1) : IsSuccess(calls[k].status)
            /\ (n > 0 /\ ~IsSuccess(calls[n].status)) => pc = "done"
            /\ pc = "done" =>
                  IF n = 0 \/ IsSuccess(calls[n].status)
                  THEN n = Len(pls) /\ IsSuccess(ret.status)
                  ELSE IF Code(calls[n].status) = Unschedulable
                  THEN /\ Code(ret.status) = Unschedulable
                       /\ ret.status.reasons = calls[n].status.reasons
                  ELSE /\ Code(ret.status) = Error
                       /\ ret.status.pluginName = pls[n]

\* Of [A, B, C], A returned Success and B returned Wait: Error is returned
\* and C was not called.
C3_Witness ==
    /\ Returned("PreFilter")
    /\ Len(f.preFilterPlugins) = 3 /\ Len(calls) = 2
    /\ Code(calls[2].status) = Wait
    /\ Code(ret.status) = Error

\* C4: when every filter plugin returned Success or Unschedulable,
\* RunFilterPlugins called them all in order and returns the map whose keys
\* are the plugins that returned Unschedulable, each with that plugin's
\* status; the map is empty exactly when all returned Success.
C4_FilterCollectsUnschedulable ==
    (/\ Returned("Filter")
     /\ \A k \in 1..Len(calls) : Code(calls[k].status) \in {Success, Unschedulable}) =>
        /\ InOrder("Filter", f.filterPlugins)
        /\ Len(calls) = Len(f.filterPlugins)
        /\ DOMAIN ret.statuses =
              {calls[k].plugin : k \in {j \in 1..Len(calls) : IsUnschedulable(calls[j].status)}}
        /\ \A k \in 1..Len(calls) :
              IsUnschedulable(calls[k].status) =>
                  ret.statuses[calls[k].plugin] = SetPluginName(calls[k].status, calls[k].plugin)
        /\ (DOMAIN ret.statuses = {}) <=> (\A k \in 1..Len(calls) : IsSuccess(calls[k].status))

\* A and C returned Unschedulable, B Success: the map has A and C.
C4_Witness ==
    /\ Returned("Filter")
    /\ Len(calls) = 3
    /\ IsUnschedulable(calls[1].status) /\ IsSuccess(calls[2].status)
    /\ IsUnschedulable(calls[3].status)
    /\ DOMAIN ret.statuses = {"A", "C"}

\* C5: a filter plugin returning Error, Wait or Skip ends RunFilterPlugins at
\* once, and the map returned holds one entry, an Error under that plugin's
\* name, and none of the Unschedulable statuses recorded before.
C5_FilterEscalatesToError ==
    op = "Filter" =>
        \A k \in 1..Len(calls) :
            Code(calls[k].status) \notin {Success, Unschedulable} =>
                /\ k = Len(calls) /\ pc = "done"
                /\ DOMAIN ret.statuses = {calls[k].plugin}
                /\ Code(ret.statuses[calls[k].plugin]) = Error

\* Of [A, B, C], A returned Unschedulable and B returned Skip: the map holds
\* B alone and C was not called.
C5_Witness ==
    /\ Returned("Filter")
    /\ Len(f.filterPlugins) = 3 /\ Len(calls) = 2
    /\ IsUnschedulable(calls[1].status) /\ IsSkip(calls[2].status)
    /\ DOMAIN ret.statuses = {"B"}

\* C6: RunPostFilterPlugins calls the plugins in registration order and
\* stops at the first Success, returning that plugin's pool name with
\* Success, or at the first code other than Success and Unschedulable,
\* returning an empty pool name with Error; no later plugin is called.
C6_PostFilterStops ==
    op = "PostFilter" =>
        LET n == Len(calls)
        IN  /\ InOrder("PostFilter", f.postFilterPlugins)
            /\ \A k \in 1..(n - 1) : IsUnschedulable(calls[k].status)
            /\ (n > 0 /\ ~IsUnschedulable(calls[n].status)) =>
                  /\ pc = "done"
                  /\ IF IsSuccess(calls[n].status)
                     THEN ret.poolName = calls[n].poolName /\ IsSuccess(ret.status)
                     ELSE ret.poolName = "" /\ Code(ret.status) = Error

\* Of [A, B, C], A returned Unschedulable and B returned Success with pool
\* p1: p1 is returned and C was not called.
C6_Witness ==
    /\ Returned("PostFilter")
    /\ Len(f.postFilterPlugins) = 3 /\ Len(calls) = 2
    /\ IsUnschedulable(calls[1].status) /\ IsSuccess(calls[2].status)
    /\ calls[2].poolName = "p1" /\ ret.poolName = "p1"

\* The orders of the calls made.
CallOrders ==
    {o \in [1..Len(calls) -> 1..Len(calls)] : \A a, b \in DOMAIN o : a # b => o[a] # o[b]}

RECURSIVE ReasonsInOrder(_)
\* The reasons returned by the calls of `order`, concatenated.
ReasonsInOrder(order) ==
    IF order = <<>> THEN <<>>
    ELSE calls[Head(order)].status.reasons \o ReasonsInOrder(Tail(order))

\* C7: with a PostFilter plugin registered and every one returning
\* Unschedulable, RunPostFilterPlugins calls them all and returns an empty
\* pool name with code Unschedulable and the reasons of every plugin, plugin
\* by plugin in the order Merge visited them.
C7_PostFilterMergesUnschedulable ==
    (/\ Returned("PostFilter")
     /\ Len(f.postFilterPlugins) >= 1
     /\ \A k \in 1..Len(calls) : IsUnschedulable(calls[k].status)) =>
        /\ InOrder("PostFilter", f.postFilterPlugins)
        /\ Len(calls) = Len(f.postFilterPlugins)
        /\ ret.poolName = ""
        /\ Code(ret.status) = Unschedulable
        /\ \E order \in CallOrders : ret.status.reasons = ReasonsInOrder(order)

\* A, B and C returned Unschedulable, with reasons r1; r1, r2; r2.
C7_Witness ==
    /\ Returned("PostFilter")
    /\ Len(calls) = 3
    /\ \A k \in 1..3 : IsUnschedulable(calls[k].status)
    /\ Len(calls[1].status.reasons) = 1 /\ Len(calls[2].status.reasons) = 2
    /\ Len(ret.status.reasons) = 4

\* C8: RunPreScorePlugins, RunReservePluginsReserve and RunPreBindPlugins
\* call their plugins in registration order, stop at the first status that
\* is not Success, whatever its code, and return Error; they return Success
\* exactly when every registered plugin returned Success.
C8_FirstNonSuccessIsError ==
    op \in {"PreScore", "Reserve", "PreBind"} =>
        LET pls == f[RunOperations[op]]
            n == Len(calls)
        IN  /\ InOrder(op, pls)
            /\ \A k \in 1..(n - 1) : IsSuccess(calls[k].status)
            /\ (n > 0 /\ ~IsSuccess(calls[n].status)) =>
                  pc = "done" /\ Code(ret.status) = Error
            /\ pc = "done" =>
                  (IsSuccess(ret.status) <=>
                      (n = Len(pls) /\ \A k \in 1..n : IsSuccess(calls[k].status)))

\* Of the reserve plugins [A, B, C], A returned Success and B returned
\* Unschedulable: Error is returned and C was not called.
C8_Witness ==
    /\ Returned("Reserve")
    /\ Len(f.reservePlugins) = 3 /\ Len(calls) = 2
    /\ IsUnschedulable(calls[2].status)
    /\ Code(ret.status) = Error

\* C9: RunBindPlugins calls the plugins in registration order and the first
\* status that is not Skip decides: Success for Success, Error for any other
\* code, and no later plugin is called; the result is Skip when every plugin
\* returned Skip or none is registered.
C9_BindFirstNonSkipDecides ==
    op = "Bind" =>
        LET pls == f.bindPlugins
            n == Len(calls)
        IN  /\ InOrder("Bind", pls)
            /\ \A k \in 1..(n - 1) : IsSkip(calls[k].status)
            /\ (n > 0 /\ ~IsSkip(calls[n].status)) =>
                  /\ pc = "done"
                  /\ IF IsSuccess(calls[n].status)
                     THEN IsSuccess(ret.status)
                     ELSE Code(ret.status) = Error
            /\ (pc = "done" /\ (n = 0 \/ IsSkip(calls[n].status))) =>
                  n = Len(pls) /\ Code(ret.status) = Skip

\* Of [A, B, C], A returned Skip and B returned Success: Success is returned
\* and C was not called.
C9_Witness ==
    /\ Returned("Bind")
    /\ Len(f.bindPlugins) = 3 /\ Len(calls) = 2
    /\ IsSkip(calls[1].status) /\ IsSuccess(calls[2].status)
    /\ IsSuccess(ret.status)

\* C10 as stated: the driver has a Permit run-operation, one that ranges
\* over the registered permit plugins.
C10_PermitRunOperation ==
    f.permitPlugins # <<>> =>
        \E o \in DOMAIN RunOperations : RunOperations[o] = "permitPlugins"

\* What the driver does instead: no operation ever calls Permit.
C10_PermitNeverCalled ==
    \A k \in 1..Len(calls) : calls[k].method # "Permit"

\* Some scoring plugin returns, for some pool passed in, a score outside the
\* range.
SomeScoreOutOfRange ==
    \E n \in 1..Len(scorers), k \in 1..Len(pools) :
        Score(scorers[n], k) \notin MinPoolScore..MaxPoolScore

\* C11 as stated: if any scoring plugin returns, for any pool, a score
\* outside the closed range, RunScorePlugins returns Error.
C11_ScoreOutOfRangeIsError ==
    (Returned("Score") /\ SomeScoreOutOfRange) => Code(ret.status) = Error

\* What RunScorePlugins does instead: it calls no Score method and returns a
\* nil status, whatever the plugins would answer.
C11_ScoreNeverCalled ==
    Returned("Score") => calls = <<>> /\ ret.status = NilStatus

ScorePluginNames == {f.scorePlugins[n] : n \in 1..Len(f.scorePlugins)}

\* C12 as stated: on success RunScorePlugins returns one entry per registered
\* scoring plugin, and the entry of plugin P holds, for each pool passed in,
\* a PoolScore with that pool's name and the score P's Score method returned
\* for that pool.
C12_ScoresAsReturnedByPlugins ==
    (Returned("Score") /\ IsSuccess(ret.status)) =>
        /\ DOMAIN scores = ScorePluginNames
        /\ \A n \in 1..Len(f.scorePlugins) :
              /\ Len(scores[f.scorePlugins[n]]) = Len(pools)
              /\ \A k \in 1..Len(pools) :
                    scores[f.scorePlugins[n]][k] =
                        PoolScore(pools[k], Score(scorers[n], k))

\* What RunScorePlugins returns instead: one list per scoring plugin, as long
\* as the pool list, of zero PoolScore values.
C12_ScoresAreZeroValues ==
    Returned("Score") =>
        /\ DOMAIN scores = ScorePluginNames
        /\ \A name \in DOMAIN scores :
              scores[name] = [k \in 1..Len(pools) |-> PoolScore("", 0)]

\* ------------------------------------------------------ claims about Status
\* Merge was called on a non-empty map.
MergeCalled == origin \in {"Merge", "panic"} /\ mp # EmptyStatuses

\* The highest precedence among the codes of p's members.
MaxPrecedence(p) ==
    CHOOSE m \in {statusPrecedence(Code(p[k])) : k \in DOMAIN p} :
        \A k \in DOMAIN p : statusPrecedence(Code(p[k])) <= m

HasMaxPrecedence(s, p) == statusPrecedence(Code(s)) = MaxPrecedence(p)

\* C13 as stated: for any non-empty map of statuses, Merge returns a status
\* whose code has the maximum precedence among the codes of the members.
C13_MergeCodeHasMaxPrecedence ==
    MergeCalled => origin = "Merge" /\ HasMaxPrecedence(held, mp)

\* The part of C13 that holds: a Merge that returns gives a code of maximum
\* precedence, and that code is the code of some member.
C13_MaxPrecedenceWhenMergeReturns ==
    (origin = "Merge" /\ mp # EmptyStatuses) =>
        /\ HasMaxPrecedence(held, mp)
        /\ \E k \in DOMAIN mp : Code(mp[k]) = Code(held)

RECURSIVE ConcatReasons(_, _)
\* The reasons of p's members, one member after the other in `order`.
ConcatReasons(p, order) ==
    IF order = <<>> THEN <<>>
    ELSE p[Head(order)].reasons \o ConcatReasons(p, Tail(order))

\* C14 as stated: for any non-empty map of statuses, the reasons of the status
\* Merge returns are the concatenation, in visit order, of the reasons of
\* every member whatever its code, and nothing else.
C14_MergeConcatenatesReasons ==
    MergeCalled => origin = "Merge" /\ held.reasons = ConcatReasons(mp, ord)

\* The part of C14 that holds: a Merge that returns gives exactly the
\* concatenation.
C14_ConcatenationWhenMergeReturns ==
    (origin = "Merge" /\ mp # EmptyStatuses) =>
        held.reasons = ConcatReasons(mp, ord)

\* The positions in the visit order of the members of highest precedence.
HighestVisits ==
    {k \in DOMAIN ord : HasMaxPrecedence(mp[ord[k]], mp)}

FirstHighest == ord[CHOOSE k \in HighestVisits : \A j \in HighestVisits : k <= j]

LastHighest == ord[CHOOSE k \in HighestVisits : \A j \in HighestVisits : k >= j]

\* C15 as stated: the plugin name of the status Merge returns is the name of
\* the last-visited member among the members of highest precedence.
C15_MergeNamesLastHighest ==
    (origin = "Merge" /\ mp # EmptyStatuses) =>
        held.pluginName = mp[LastHighest].pluginName

\* C15, amended: Merge faults on a map with a nil member; otherwise the plugin
\* name is that of the first-visited member among the members of highest
\* precedence, and empty when every member is Success.
C15_MergeNamesFirstHighest ==
    MergeCalled =>
        IF MergePanics(mp) THEN origin = "panic"
        ELSE /\ origin = "Merge"
             /\ held.pluginName =
                    IF MaxPrecedence(mp) = statusPrecedence(Success) THEN ""
                    ELSE mp[FirstHighest].pluginName

C15_Witness ==
    /\ origin = "Merge"
    /\ Cardinality(HighestVisits) >= 2
    /\ FirstHighest # LastHighest
    /\ held.pluginName = FirstHighest
    /\ held.pluginName # mp[LastHighest].pluginName

\* C16: a nil Status behaves like an explicit Success: Code() is Success,
\* IsSuccess() is true, AsError() is nil and Message() is empty, the answers
\* NewStatus(Success) gives.
C16_NilBehavesLikeSuccess ==
    (obs.subject = "held" /\ origin = "nil") =>
        /\ obs.code = Success
        /\ obs.isSuccess
        /\ obs.asError = NilError
        /\ obs.message = <<>>
        /\ obs = Observation("held", NewStatus(Success, <<>>))

C16_Witness == obs.subject = "held" /\ origin = "nil" /\ held.nil

\* C17: for every Status (nil, built by NewStatus or AsStatus, returned by
\* Merge or by a run-operation), AsError() is nil exactly when Code() is
\* Success.
C17_AsErrorNilIffSuccess ==
    obs.subject # "none" => (obs.asError = NilError <=> obs.code = Success)

C17_Witness ==
    /\ obs.subject = "held"
    /\ origin = "Merge"
    /\ obs.code = Unschedulable
    /\ held.err = NilError
    /\ obs.asError # NilError

\* The statuses in the caller's hands: made by NewStatus, AsStatus or Merge,
\* or returned by a run-operation.
StatusesInHand ==
    (IF origin \in {"NewStatus", "AsStatus", "Merge"} THEN {held} ELSE {})
        \cup (IF pc = "done" /\ op # "Unreserve" THEN {ret.status} ELSE {})

\* C18 as stated: every Status whose code is Success, built by NewStatus,
\* returned by Merge or by a run-operation, has no reasons and no underlying
\* error.
C18_SuccessHasNoReasonsNoError ==
    \A s \in StatusesInHand :
        (~s.nil /\ s.code = Success) => s.reasons = <<>> /\ s.err = NilError

\* The part of C18 that holds: a Success status has no underlying error.
C18_SuccessHasNoError ==
    \A s \in StatusesInHand : (~s.nil /\ s.code = Success) => s.err = NilError

\* --------------------------------------------------- claims about CycleState
\* The other one of the two CycleStates.
Other(c) == IF c = "original" THEN "clone" ELSE "original"

\* C19: once the original is cloned, a Write or Delete on either of the two
\* leaves what Read returns on the other unchanged for every key; and a Clone
\* that returns gives a CycleState with exactly the original's keys, each
\* mapped to the clone of the original's value.
C19_CloneIsIndependent ==
    [][/\ \A c \in DOMAIN cs :
            (/\ csOp'.name \in {"Write", "Delete"}
             /\ csOp'.on = c
             /\ cs[Other(c)] # "none")
                => \A k \in StateKeys : Read(Other(c), k)' = Read(Other(c), k)
       /\ (csOp'.name = "Clone" /\ ~csOp'.fault) =>
            /\ cs'.clone \notin {"none", cs'.original}
            /\ DOMAIN storage'[cs'.clone] = DOMAIN storage[cs.original]
            /\ \A k \in DOMAIN storage[cs.original] :
                  storage'[cs'.clone][k] = CloneData(storage[cs.original][k])
      ]_vars

\* The original was written after the clone was made, and the clone still
\* reads the value it was made with.
C19_Witness ==
    /\ csOp.name = "Write"
    /\ csOp.on = "original"
    /\ cs.clone # "none"
    /\ Read("clone", csOp.key).err = NilError
    /\ Read("clone", csOp.key).value.data # Read("original", csOp.key).value.data

\* C20: Read(k) returns the not-found error and no value exactly when k was
\* never written or was deleted after its last write; otherwise it returns
\* the value of the last Write to k and no error, also when that value is
\* empty.
C20_ReadTellsMissingFromEmpty ==
    csOp.name = "Read" =>
        LET h == hist[csOp.on][csOp.key] IN
        /\ h.state = "written" =>
              csOp.result = [value |-> h.val, err |-> NilError]
        /\ h.state \in {"never", "deleted"} =>
              csOp.result = [value |-> NilData, err |-> ErrNotFound]
        /\ csOp.result.err \in {NilError, ErrNotFound}
        /\ ErrNotFound # NilError

C20_Witness ==
    /\ csOp.name = "Read"
    /\ hist[csOp.on][csOp.key].state = "written"
    /\ hist[csOp.on][csOp.key].val.nil
    /\ csOp.result = [value |-> NilData, err |-> NilError]

\* ------------------------------------------- claims about the CycleState lock
\* g is about to read the original's map / to modify it.
ReadsMap(g) == th[g].pc \in {"lookup", "range"}

ModifiesMap(g) == th[g].pc \in {"store", "delete"}

\* C21 as stated: every operation accesses the storage map only while holding
\* the lock, shared for reading and exclusive for Write and Delete, so no
\* goroutine reads the map while another is modifying it.
C21_MapAccessedUnderLock ==
    /\ \A g \in Goroutines :
          /\ ReadsMap(g) => g \in mx.readers
          /\ ModifiesMap(g) => mx.writer = g
    /\ \A g, o \in Goroutines :
          (g # o /\ ModifiesMap(g)) => ~ReadsMap(o) /\ ~ModifiesMap(o)

\* The part of C21 that holds: Read, Write and Delete access the map under
\* the lock, and two of them never conflict.
C21_ReadWriteDeleteUnderLock ==
    /\ \A g \in Goroutines :
          /\ th[g].pc = "lookup" => g \in mx.readers /\ mx.writer = "none"
          /\ ModifiesMap(g) => mx.writer = g /\ mx.readers = {}
    /\ \A g, o \in Goroutines :
          (g # o /\ ModifiesMap(g)) => th[o].pc # "lookup" /\ ~ModifiesMap(o)

\* ------------------------------------- claims about what the driver returns
\* The statuses a returned run-operation hands to its caller: its status
\* result, and for RunFilterPlugins the members of the map it returns.
ReturnedStatuses ==
    {ret.status} \cup {ret.statuses[k] : k \in DOMAIN ret.statuses}

\* The operation returned right after a plugin returned a non-Success status.
ReturnedOnNonSuccess ==
    /\ pc = "done"
    /\ calls # <<>>
    /\ ~IsSuccess(calls[Len(calls)].status)

\* C22 as stated: whenever PreFilter, Filter, PostFilter, PreScore, Reserve,
\* PreBind or Bind returns an Error status because one of its plugins returned
\* a non-Success status, PluginName() of that status is the plugin's name.
C22_ErrorNamesPlugin ==
    ReturnedOnNonSuccess =>
        \A s \in ReturnedStatuses :
            Code(s) = Error => s.pluginName = calls[Len(calls)].plugin

\* The part of C22 that holds: the Error statuses of RunPreFilterPlugins and
\* RunFilterPlugins carry the plugin's name.
C22_PreFilterAndFilterNamePlugin ==
    (ReturnedOnNonSuccess /\ op \in {"PreFilter", "Filter"}) =>
        \A s \in ReturnedStatuses :
            Code(s) = Error => s.pluginName = calls[Len(calls)].plugin

\* The operations whose plugins return a status.
StatusOperations ==
    {"PreFilter", "Filter", "PostFilter", "PreScore", "Reserve", "PreBind", "Bind"}

\* The k-th plugin call of the operation returned Wait, or Skip outside Bind.
Misplaced(k) ==
    \/ Code(calls[k].status) = Wait
    \/ Code(calls[k].status) = Skip /\ op # "Bind"

\* C23: no run-operation returns Wait, and only RunBindPlugins returns Skip: a
\* plugin's Wait or Skip at PreFilter, Filter, PostFilter, PreScore, Reserve
\* or PreBind, and a Wait at Bind, ends the operation, which returns Error.
C23_WaitAndSkipBecomeError ==
    /\ pc = "done" =>
          \A s \in ReturnedStatuses :
              /\ Code(s) # Wait
              /\ Code(s) = Skip => op = "Bind"
    /\ op \in StatusOperations =>
          \A k \in 1..Len(calls) :
              Misplaced(k) =>
                  /\ k = Len(calls)
                  /\ pc = "done"
                  /\ IF op = "Filter"
                     THEN /\ DOMAIN ret.statuses = {calls[k].plugin}
                          /\ Code(ret.statuses[calls[k].plugin]) = Error
                     ELSE Code(ret.status) = Error

C23_Witness ==
    /\ pc = "done"
    /\ op = "PreBind"
    /\ Len(calls) >= 2
    /\ Code(calls[Len(calls)].status) \in {Wait, Skip}
    /\ Code(ret.status) = Error

\* ctx was cancelled when the returned operation started, or between two of
\* its plugin calls.
CancelledInTime == ctx.done /\ ctx.when \in {"start", "between"}

\* C24 as stated: if ctx is already cancelled when a run-operation starts, or
\* becomes cancelled between two of its plugin calls, the operation calls no
\* further plugin and its result is an Error status.
C24_CancelledContextStops ==
    (pc = "done" /\ op \in StatusOperations /\ CancelledInTime) =>
        /\ Len(calls) = ctx.calls
        /\ \E s \in ReturnedStatuses : Code(s) = Error

\* What the driver does instead: with ctx cancelled at its start it still
\* calls every plugin that returns Success, and returns what it returns with
\* a live ctx.
C24_CancelledContextIgnored ==
    (pc = "done" /\ op = "PreScore" /\ CancelledInTime
        /\ \A k \in 1..Len(calls) : IsSuccess(calls[k].status)) =>
        /\ Len(calls) = Len(f.preScorePlugins)
        /\ IsSuccess(ret.status)

\* ------------------------------------------------ claims about Merge's order
\* How many times reason r occurs in the reason list rs.
Occurrences(rs, r) == Cardinality({k \in DOMAIN rs : rs[k] = r})

\* rs and qs hold the same reasons, each as many times.
SameMultiset(rs, qs) ==
    \A r \in {rs[k] : k \in DOMAIN rs} \cup {qs[k] : k \in DOMAIN qs} :
        Occurrences(rs, r) = Occurrences(qs, r)

\* C25 as stated: for a given map, Merge returns the same code, the same
\* plugin name, the same underlying error and the same multiset of reasons
\* whatever order the map's entries are visited in.
C25_MergeOrderIndependent ==
    (origin = "Merge" /\ mp # EmptyStatuses) =>
        \A order \in VisitOrders(mp) :
            LET other == Merge(mp, order) IN
            /\ other.code = held.code
            /\ other.pluginName = held.pluginName
            /\ other.err = held.err
            /\ SameMultiset(other.reasons, held.reasons)

\* The part of C25 that holds: the precedence of the code and the multiset of
\* reasons do not depend on the visit order.
C25_PrecedenceAndReasonsOrderFree ==
    (origin = "Merge" /\ mp # EmptyStatuses) =>
        \A order \in VisitOrders(mp) :
            LET other == Merge(mp, order) IN
            /\ statusPrecedence(other.code) = statusPrecedence(held.code)
            /\ SameMultiset(other.reasons, held.reasons)

\* p with every nil member replaced by an explicit Success without reasons.
WithExplicitSuccess(p) ==
    [k \in DOMAIN p |-> IF p[k].nil THEN NewStatus(Success, <<>>) ELSE p[k]]

\* C26 as stated: Merge over a map with a nil member completes without fault
\* and returns what Merge returns over the same map with that member replaced
\* by an explicit Success status without reasons.
C26_MergeTakesNilAsSuccess ==
    (MergeCalled /\ MergePanics(mp)) =>
        /\ origin = "Merge"
        /\ held = Merge(WithExplicitSuccess(mp), ord)

\* What Merge does instead: it faults on every map with a nil member, and on
\* no other map.
C26_MergeFaultsOnNil ==
    MergeCalled => (origin = "panic" <=> MergePanics(mp))

\* ------------------------------------------------- claims about PostFilter
\* Some plugin called by the operation returned Success.
SomePluginSucceeded == \E k \in 1..Len(calls) : IsSuccess(calls[k].status)

\* C27 as stated: RunPostFilterPlugins returns a Success status only when
\* some registered PostFilter plugin returned Success; with no PostFilter
\* plugin registered its result is not Success.
C27_PostFilterSuccessFromPlugin ==
    (Returned("PostFilter") /\ IsSuccess(ret.status)) => SomePluginSucceeded

\* The part of C27 that holds: with a PostFilter plugin registered, a Success
\* result is the Success of the last plugin called; with none registered the
\* result is the nil status, which is Success.
C27_PostFilterSuccessWhenRegistered ==
    Returned("PostFilter") =>
        IF f.postFilterPlugins = <<>>
        THEN ret.status = NilStatus /\ ret.poolName = ""
        ELSE IsSuccess(ret.status) =>
                /\ calls # <<>>
                /\ ret.status = calls[Len(calls)].status
                /\ IsSuccess(calls[Len(calls)].status)

=============================================================================
